---- MODULE Spec2Model ----
(***************************************************************************)
(* The Wardrobe panel of src/components/WardrobeModal.tsx as a state       *)
(* machine.  One step is one turn of the browser's event loop: a DOM event *)
(* delivered to one of the panel's handlers, the settlement of one         *)
(* urlToFile promise (the continuation of handleGarmentClick after its     *)
(* await), or a re-render with new props from the parent.                  *)
(*                                                                         *)
(* JavaScript strings the code computes on (trim, startsWith) are          *)
(* sequences of one-character strings; identifiers and URLs are pairs      *)
(* <<prefix, number>>; objects are records; an absent object is null.      *)
(***************************************************************************)
EXTENDS Naturals, Sequences, FiniteSets

VARIABLES
    error,                    \* useState<string | null>            (line 84)
    activeTab,                \* useState<'garments' | 'looks'>     (line 85)
    isSaveModalOpen,          \* useState(false)                    (line 86)
    newLookName,              \* useState('')                       (line 87)
    selectedGarmentForColor,  \* useState<WardrobeItem | null>      (line 88)
    selectedColor,            \* useState('Original')               (line 89)
    pendingFile,              \* useState<File | null>              (line 90)
    isLoading,                \* prop, owned by the parent
    activeGarmentIds,         \* prop, owned by the parent
    displayImageUrl,          \* prop, owned by the parent
    savedLooks,               \* prop, owned by the parent
    inflight,                 \* urlToFile promises not yet settled, in click order
    now,                      \* the value Date.now() returns
    promise,                  \* one urlToFile call followed through its callbacks
                              \* (lines 24-56); null where no call is followed alone
    lastSwatch,               \* history: the swatch the user chose last since the color
                              \* sub-view opened, "Original" when none
    ev,                       \* history: the step that produced this state
    emitted                   \* history: the callbacks that step invoked, in order

panel == <<error, activeTab, isSaveModalOpen, newLookName,
           selectedGarmentForColor, selectedColor, pendingFile>>
props == <<isLoading, activeGarmentIds, displayImageUrl, savedLooks>>
vars  == <<error, activeTab, isSaveModalOpen, newLookName,
           selectedGarmentForColor, selectedColor, pendingFile,
           isLoading, activeGarmentIds, displayImageUrl, savedLooks,
           inflight, now, promise, lastSwatch, ev, emitted>>

(***************************************************************************)
(* Values                                                                  *)
(***************************************************************************)
null == [null |-> TRUE]
NullStr == "null"

MaxInFlight == 2
MaxSwatch == 2

Str_image == <<"i", "m", "a", "g", "e", "/">>
ImagePng == Str_image \o <<"p", "n", "g">>
TextPlain == <<"t", "e", "x", "t", "/", "p", "l", "a", "i", "n">>

COLORS == <<"Original", "Black", "White", "Gray", "Red", "Blue", "Green",
            "Yellow", "Purple", "Pink", "Orange", "Brown">>
ColorNames == {COLORS[k] : k \in 1..Len(COLORS)}
SwatchInputs == {COLORS[k] : k \in 1..MaxSwatch}

ErrLoad == "Failed to load wardrobe item. This is often a CORS issue. Check the developer console for details."
ErrType == "Please select an image file."

WardrobeItem(k, nm) == [id |-> <<"garment-", k>>, name |-> nm, url |-> <<"https:", k>>]
wardrobe == <<WardrobeItem(1, <<"t", "e", "e">>), WardrobeItem(2, <<"h", "a", "t">>)>>
WardrobeItems == {wardrobe[k] : k \in 1..Len(wardrobe)}
WardrobeIds == {it.id : it \in WardrobeItems}

SavedLook(k, nm) == [id |-> <<"look-", k>>, name |-> nm, url |-> <<"data:", k>>,
                     createdAt |-> k, garmentColors |-> <<"Red">>]
InitialLooks == <<SavedLook(1, <<"a">>), SavedLook(2, <<"b">>)>>

File(nm, ty, dt) == [name |-> nm, type |-> ty, data |-> dt]

(***************************************************************************)
(* String helpers                                                          *)
(***************************************************************************)
IsWhiteSpace(c) == c \in {" ", "\t", "\n"}

RECURSIVE TrimStart(_)
TrimStart(s) ==
    IF s # <<>> /\ IsWhiteSpace(Head(s)) THEN TrimStart(Tail(s)) ELSE s

RECURSIVE TrimEnd(_)
TrimEnd(s) ==
    IF s # <<>> /\ IsWhiteSpace(s[Len(s)]) THEN TrimEnd(SubSeq(s, 1, Len(s) - 1)) ELSE s

Trim_LeadingOnly(s) == TrimStart(s)

Trim(s) == TrimEnd(TrimStart(s))

StartsWith_LengthOnly(s, p) == Len(s) >= Len(p)

StartsWith(s, p) == Len(s) >= Len(p) /\ SubSeq(s, 1, Len(p)) = p

Truthy(s) == s # <<>>

RemoveAt(q, k) == SubSeq(q, 1, k - 1) \o SubSeq(q, k + 1, Len(q))

(***************************************************************************)
(* Image Acquisition: urlToFile (lines 24-56).  What the browser does with *)
(* the URL is not decided by the code; o is one outcome of it: whether the *)
(* image loads, whether the canvas gives a 2d context, and the blob that   *)
(* toBlob hands to its callback (null, or a blob with its type).           *)
(***************************************************************************)
Outcome(l, c, b) == [loads |-> l, ctx |-> c, blob |-> b]
Blob(ty) == [type |-> ty]
Outcomes == {Outcome(FALSE, TRUE, null), Outcome(TRUE, FALSE, null),
             Outcome(TRUE, TRUE, null), Outcome(TRUE, TRUE, Blob(<<>>)),
             Outcome(TRUE, TRUE, Blob(ImagePng))}

Rejected(msg) == [settled |-> "rejected", reason |-> msg]
Resolved(f) == [settled |-> "resolved", file |-> f]

urlToFile_AlwaysPng(url, filename, o) ==
    IF ~o.loads
    THEN Rejected("Could not load image from URL for canvas conversion.")
    ELSE IF ~o.ctx
    THEN Rejected("Could not get canvas context.")
    ELSE IF o.blob = null
    THEN Rejected("Canvas toBlob failed.")
    ELSE Resolved(File(filename, ImagePng, <<"pixels", url>>))

urlToFile(url, filename, o) ==
    IF ~o.loads
    THEN Rejected("Could not load image from URL for canvas conversion.")
    ELSE IF ~o.ctx
    THEN Rejected("Could not get canvas context.")
    ELSE IF o.blob = null
    THEN Rejected("Canvas toBlob failed.")
    ELSE LET mimeType == IF Truthy(o.blob.type) THEN o.blob.type ELSE ImagePng
         IN  Resolved(File(filename, mimeType, <<"pixels", url>>))

(***************************************************************************)
(* The files the user can choose in the upload input, and the names the    *)
(* user can type into the look-name field.                                 *)
(***************************************************************************)
UploadFiles == {File(<<"a", ".", "p", "n", "g">>, ImagePng, <<"bytes", <<"local", 1>>>>),
                File(<<"n", ".", "t", "x", "t">>, TextPlain, <<"bytes", <<"local", 2>>>>)}
FileLists == {<<>>} \cup {<<f>> : f \in UploadFiles}

NameInputs == {<<>>, <<" ", " ">>, <<" ", "a", " ", "b", " ">>}

ObjectURL(file) == <<"blob:", file.data[2][2]>>

(***************************************************************************)
(* What is rendered (the JSX of lines 153-375)                             *)
(***************************************************************************)
GarmentGridRendered == activeTab = "garments"                  \* line 178
LooksGridRendered == activeTab # "garments"                    \* line 208
SaveModalRendered == isSaveModalOpen                           \* line 262
ColorModalRendered == selectedGarmentForColor # null           \* line 320

isActive(item) == item.id \in activeGarmentIds                 \* line 181
GarmentBlocked_LoadingOnly(item) == isLoading
GarmentBlocked(item) == isLoading \/ isActive(item)            \* lines 93, 186
UploadDisabled_Never == FALSE
UploadDisabled == isLoading                                    \* line 205
SaveLookDisabled == isLoading \/ displayImageUrl = NullStr     \* line 212
SubmitBlocked == ~Truthy(Trim(newLookName))                    \* lines 145, 306

Call(fn, args) == [fn |-> fn, args |-> args]
Event(op, arg) == [op |-> op, arg |-> arg]

Init ==
    /\ error = NullStr
    /\ activeTab = "garments"
    /\ isSaveModalOpen = FALSE
    /\ newLookName = <<>>
    /\ selectedGarmentForColor = null
    /\ selectedColor = "Original"
    /\ pendingFile = null
    /\ isLoading = FALSE
    /\ activeGarmentIds = {}
    /\ displayImageUrl = NullStr
    /\ savedLooks = InitialLooks
    /\ inflight = <<>>
    /\ now = 0
    /\ promise = null
    /\ lastSwatch = "Original"
    /\ ev = Event("mount", null)
    /\ emitted = <<>>

(***************************************************************************)
(* Garment click: handleGarmentClick up to its await (lines 92-97)         *)
(***************************************************************************)
handleGarmentClick(item) ==
    /\ GarmentGridRendered
    /\ ev' = Event("handleGarmentClick", item.id)
    /\ emitted' = <<>>
    /\ IF GarmentBlocked(item)
       THEN UNCHANGED <<panel, inflight>>
       ELSE /\ Len(inflight) < MaxInFlight
            /\ error' = NullStr
            /\ inflight' = Append(inflight, item)
            /\ UNCHANGED <<activeTab, isSaveModalOpen, newLookName,
                           selectedGarmentForColor, selectedColor, pendingFile>>
    /\ UNCHANGED <<props, now, promise, lastSwatch>>

(***************************************************************************)
(* The promise of the k-th pending acquisition settles with outcome o and  *)
(* handleGarmentClick continues after its await (lines 97-106)             *)
(***************************************************************************)
AcquisitionSettles_KeepsCandidate(k, o) ==
    /\ k \in 1..Len(inflight)
    /\ LET item == inflight[k]
           r == urlToFile(item.url, item.name, o)
       IN  /\ ev' = Event("AcquisitionSettles",
                          [id |-> item.id, settled |-> r.settled,
                           overtakes |-> \E j \in (k + 1)..Len(inflight) :
                                            inflight[j].id # item.id])
           /\ IF r.settled = "resolved"
              THEN /\ pendingFile' = r.file
                   /\ selectedGarmentForColor' =
                          (IF selectedGarmentForColor # null
                           THEN selectedGarmentForColor ELSE item)
                   /\ selectedColor' = "Original"
                   /\ UNCHANGED error
              ELSE /\ error' = ErrLoad
                   /\ UNCHANGED <<pendingFile, selectedGarmentForColor, selectedColor>>
    /\ inflight' = RemoveAt(inflight, k)
    /\ emitted' = <<>>
    /\ UNCHANGED <<activeTab, isSaveModalOpen, newLookName, props, now, promise, lastSwatch>>

AcquisitionSettles_IgnoresStale(k, o) ==
    /\ k \in 1..Len(inflight)
    /\ LET item == inflight[k]
           r == urlToFile(item.url, item.name, o)
           overtakes == \E j \in (k + 1)..Len(inflight) : inflight[j].id # item.id
       IN  /\ ev' = Event("AcquisitionSettles",
                          [id |-> item.id, settled |-> r.settled, overtakes |-> overtakes])
           /\ IF r.settled = "resolved" /\ ~overtakes
              THEN /\ pendingFile' = r.file
                   /\ selectedGarmentForColor' = item
                   /\ selectedColor' = "Original"
                   /\ UNCHANGED error
              ELSE /\ error' = (IF r.settled = "resolved" THEN error ELSE ErrLoad)
                   /\ UNCHANGED <<pendingFile, selectedGarmentForColor, selectedColor>>
    /\ inflight' = RemoveAt(inflight, k)
    /\ emitted' = <<>>
    /\ UNCHANGED <<activeTab, isSaveModalOpen, newLookName, props, now, promise, lastSwatch>>

AcquisitionSettles(k, o) ==
    /\ k \in 1..Len(inflight)
    /\ LET item == inflight[k]
           r == urlToFile(item.url, item.name, o)
       IN  /\ ev' = Event("AcquisitionSettles",
                          [id |-> item.id, settled |-> r.settled,
                           overtakes |-> \E j \in (k + 1)..Len(inflight) :
                                            inflight[j].id # item.id])
           /\ IF r.settled = "resolved"
              THEN /\ pendingFile' = r.file
                   /\ selectedGarmentForColor' = item
                   /\ selectedColor' = "Original"
                   /\ UNCHANGED error
              ELSE /\ error' = ErrLoad
                   /\ UNCHANGED <<pendingFile, selectedGarmentForColor, selectedColor>>
    /\ inflight' = RemoveAt(inflight, k)
    /\ emitted' = <<>>
    /\ UNCHANGED <<activeTab, isSaveModalOpen, newLookName, props, now, promise, lastSwatch>>

(***************************************************************************)
(* Color sub-view (lines 319-373)                                          *)
(***************************************************************************)
setSelectedColor_ClearsError(c) ==
    /\ ColorModalRendered
    /\ selectedColor' = c
    /\ lastSwatch' = c
    /\ error' = NullStr
    /\ ev' = Event("setSelectedColor", c)
    /\ emitted' = <<>>
    /\ UNCHANGED <<activeTab, isSaveModalOpen, newLookName,
                   selectedGarmentForColor, pendingFile, props, inflight, now, promise>>

setSelectedColor(c) ==
    /\ ColorModalRendered
    /\ selectedColor' = c
    /\ lastSwatch' = c
    /\ ev' = Event("setSelectedColor", c)
    /\ emitted' = <<>>
    /\ UNCHANGED <<error, activeTab, isSaveModalOpen, newLookName,
                   selectedGarmentForColor, pendingFile, props, inflight, now, promise>>

handleApplyGarment_KeepsSelection ==
    /\ ColorModalRendered
    /\ ev' = Event("handleApplyGarment", null)
    /\ IF pendingFile # null /\ selectedGarmentForColor # null
       THEN /\ emitted' = <<Call("onGarmentSelect",
                                 <<pendingFile, selectedGarmentForColor, selectedColor>>)>>
            /\ selectedColor' = "Original"
            /\ UNCHANGED <<pendingFile, selectedGarmentForColor>>
       ELSE /\ emitted' = <<>>
            /\ UNCHANGED <<pendingFile, selectedGarmentForColor, selectedColor>>
    /\ lastSwatch' = "Original"
    /\ UNCHANGED <<error, activeTab, isSaveModalOpen, newLookName, props, inflight, now, promise>>

handleApplyGarment_KeepsItem ==
    /\ ColorModalRendered
    /\ ev' = Event("handleApplyGarment", null)
    /\ IF pendingFile # null /\ selectedGarmentForColor # null
       THEN /\ emitted' = <<Call("onGarmentSelect",
                                 <<pendingFile, selectedGarmentForColor, selectedColor>>)>>
            /\ pendingFile' = null
            /\ selectedColor' = "Original"
            /\ UNCHANGED selectedGarmentForColor
       ELSE /\ emitted' = <<>>
            /\ UNCHANGED <<pendingFile, selectedGarmentForColor, selectedColor>>
    /\ lastSwatch' = "Original"
    /\ UNCHANGED <<error, activeTab, isSaveModalOpen, newLookName, props, inflight, now, promise>>

handleApplyGarment ==
    /\ ColorModalRendered
    /\ ev' = Event("handleApplyGarment", null)
    /\ IF pendingFile # null /\ selectedGarmentForColor # null
       THEN /\ emitted' = <<Call("onGarmentSelect",
                                 <<pendingFile, selectedGarmentForColor, selectedColor>>)>>
            /\ pendingFile' = null
            /\ selectedGarmentForColor' = null
            /\ selectedColor' = "Original"
       ELSE /\ emitted' = <<>>
            /\ UNCHANGED <<pendingFile, selectedGarmentForColor, selectedColor>>
    /\ lastSwatch' = "Original"
    /\ UNCHANGED <<error, activeTab, isSaveModalOpen, newLookName, props, inflight, now, promise>>

handleCancelColorSelection_KeepsFile ==
    /\ ColorModalRendered
    /\ selectedGarmentForColor' = null
    /\ ev' = Event("handleCancelColorSelection", null)
    /\ emitted' = <<>>
    /\ lastSwatch' = "Original"
    /\ UNCHANGED <<error, activeTab, isSaveModalOpen, newLookName, selectedColor,
                   pendingFile, props, inflight, now, promise>>

handleCancelColorSelection ==
    /\ ColorModalRendered
    /\ pendingFile' = null
    /\ selectedGarmentForColor' = null
    /\ ev' = Event("handleCancelColorSelection", null)
    /\ emitted' = <<>>
    /\ lastSwatch' = "Original"
    /\ UNCHANGED <<error, activeTab, isSaveModalOpen, newLookName, selectedColor,
                   props, inflight, now, promise>>

(***************************************************************************)
(* Custom upload: the change event of the file input (lines 123-141, 205)  *)
(***************************************************************************)
CustomGarment_Unnamed(file) ==
    [id |-> <<"custom-", now>>, name |-> <<>>, url |-> ObjectURL(file)]

CustomGarment(file) ==
    [id |-> <<"custom-", now>>, name |-> file.name, url |-> ObjectURL(file)]

handleFileChange_ClearsError(files) ==
    /\ GarmentGridRendered
    /\ ev' = Event("handleFileChange", files)
    /\ emitted' = <<>>
    /\ IF UploadDisabled \/ files = <<>>
       THEN UNCHANGED panel
       ELSE LET file == files[1]
            IN  IF ~StartsWith(file.type, Str_image)
                THEN /\ error' = ErrType
                     /\ UNCHANGED <<activeTab, isSaveModalOpen, newLookName,
                                    selectedGarmentForColor, selectedColor, pendingFile>>
                ELSE /\ error' = NullStr
                     /\ pendingFile' = file
                     /\ selectedGarmentForColor' = CustomGarment(file)
                     /\ selectedColor' = "Original"
                     /\ UNCHANGED <<activeTab, isSaveModalOpen, newLookName>>
    /\ UNCHANGED <<props, inflight, now, promise, lastSwatch>>

handleFileChange(files) ==
    /\ GarmentGridRendered
    /\ ev' = Event("handleFileChange", files)
    /\ emitted' = <<>>
    /\ IF UploadDisabled \/ files = <<>>
       THEN UNCHANGED panel
       ELSE LET file == files[1]
            IN  IF ~StartsWith(file.type, Str_image)
                THEN /\ error' = ErrType
                     /\ UNCHANGED <<activeTab, isSaveModalOpen, newLookName,
                                    selectedGarmentForColor, selectedColor, pendingFile>>
                ELSE /\ pendingFile' = file
                     /\ selectedGarmentForColor' = CustomGarment(file)
                     /\ selectedColor' = "Original"
                     /\ UNCHANGED <<error, activeTab, isSaveModalOpen, newLookName>>
    /\ UNCHANGED <<props, inflight, now, promise, lastSwatch>>

(***************************************************************************)
(* Tabs (lines 158-175)                                                    *)
(***************************************************************************)
setActiveTab(t) ==
    /\ activeTab' = t
    /\ ev' = Event("setActiveTab", t)
    /\ emitted' = <<>>
    /\ UNCHANGED <<error, isSaveModalOpen, newLookName, selectedGarmentForColor,
                   selectedColor, pendingFile, props, inflight, now, promise, lastSwatch>>

(***************************************************************************)
(* Save-look flow (lines 143-151, 210-217, 260-316)                        *)
(***************************************************************************)
openSaveModal ==
    /\ LooksGridRendered
    /\ isSaveModalOpen' = (IF SaveLookDisabled THEN isSaveModalOpen ELSE TRUE)
    /\ ev' = Event("openSaveModal", null)
    /\ emitted' = <<>>
    /\ UNCHANGED <<error, activeTab, newLookName, selectedGarmentForColor,
                   selectedColor, pendingFile, props, inflight, now, promise, lastSwatch>>

closeSaveModal ==
    /\ SaveModalRendered
    /\ isSaveModalOpen' = FALSE
    /\ ev' = Event("closeSaveModal", null)
    /\ emitted' = <<>>
    /\ UNCHANGED <<error, activeTab, newLookName, selectedGarmentForColor,
                   selectedColor, pendingFile, props, inflight, now, promise, lastSwatch>>

setNewLookName(value) ==
    /\ SaveModalRendered
    /\ newLookName' = value
    /\ ev' = Event("setNewLookName", value)
    /\ emitted' = <<>>
    /\ UNCHANGED <<error, activeTab, isSaveModalOpen, selectedGarmentForColor,
                   selectedColor, pendingFile, props, inflight, now, promise, lastSwatch>>

handleSaveSubmit ==
    /\ SaveModalRendered
    /\ ev' = Event("handleSaveSubmit", newLookName)
    /\ IF ~SubmitBlocked
       THEN /\ emitted' = <<Call("onSaveLook", <<Trim(newLookName)>>)>>
            /\ newLookName' = <<>>
            /\ isSaveModalOpen' = FALSE
            /\ activeTab' = "looks"
       ELSE /\ emitted' = <<>>
            /\ UNCHANGED <<newLookName, isSaveModalOpen, activeTab>>
    /\ UNCHANGED <<error, selectedGarmentForColor, selectedColor, pendingFile,
                   props, inflight, now, promise, lastSwatch>>

(***************************************************************************)
(* Looks tab (lines 218-251)                                               *)
(***************************************************************************)
wearLook(k) ==
    /\ LooksGridRendered
    /\ k \in 1..Len(savedLooks)
    /\ emitted' = <<Call("onSelectLook", <<savedLooks[k]>>)>>
    /\ ev' = Event("wearLook", k)
    /\ UNCHANGED <<panel, props, inflight, now, promise, lastSwatch>>

deleteLook_RemovesLocally(k) ==
    /\ LooksGridRendered
    /\ k \in 1..Len(savedLooks)
    /\ emitted' = <<Call("onDeleteLook", <<savedLooks[k].id>>)>>
    /\ ev' = Event("deleteLook", k)
    /\ savedLooks' = RemoveAt(savedLooks, k)
    /\ UNCHANGED <<panel, isLoading, activeGarmentIds, displayImageUrl,
                   inflight, now, promise, lastSwatch>>

deleteLook(k) ==
    /\ LooksGridRendered
    /\ k \in 1..Len(savedLooks)
    /\ emitted' = <<Call("onDeleteLook", <<savedLooks[k].id>>)>>
    /\ ev' = Event("deleteLook", k)
    /\ UNCHANGED <<panel, props, inflight, now, promise, lastSwatch>>

(***************************************************************************)
(* The parent re-renders the panel with new props (lines 73-83)            *)
(***************************************************************************)
ActiveIdSets == {{}, {wardrobe[1].id}}
DisplayImageUrls == {NullStr, "data:image/png;base64,preview"}

parentSetsIsLoading(b) ==
    /\ isLoading' = b
    /\ b # isLoading
    /\ ev' = Event("props", null)
    /\ emitted' = <<>>
    /\ UNCHANGED <<panel, activeGarmentIds, displayImageUrl, savedLooks, inflight, now, promise, lastSwatch>>

parentSetsActiveGarmentIds(ids) ==
    /\ activeGarmentIds' = ids
    /\ ids # activeGarmentIds
    /\ ev' = Event("props", null)
    /\ emitted' = <<>>
    /\ UNCHANGED <<panel, isLoading, displayImageUrl, savedLooks, inflight, now, promise, lastSwatch>>

parentSetsDisplayImageUrl(u) ==
    /\ displayImageUrl' = u
    /\ u # displayImageUrl
    /\ ev' = Event("props", null)
    /\ emitted' = <<>>
    /\ UNCHANGED <<panel, isLoading, activeGarmentIds, savedLooks, inflight, now, promise, lastSwatch>>

Next ==
    \/ \E item \in WardrobeItems : handleGarmentClick(item)
    \/ \E k \in 1..MaxInFlight, o \in Outcomes : AcquisitionSettles(k, o)
    \/ \E c \in SwatchInputs : setSelectedColor(c)
    \/ handleApplyGarment
    \/ handleCancelColorSelection
    \/ \E files \in FileLists : handleFileChange(files)
    \/ \E t \in {"garments", "looks"} : setActiveTab(t)
    \/ openSaveModal
    \/ closeSaveModal
    \/ \E value \in NameInputs : setNewLookName(value)
    \/ handleSaveSubmit
    \/ \E k \in 1..Len(InitialLooks) : wearLook(k)
    \/ \E k \in 1..Len(InitialLooks) : deleteLook(k)
    \/ \E b \in BOOLEAN : parentSetsIsLoading(b)
    \/ \E ids \in ActiveIdSets : parentSetsActiveGarmentIds(ids)
    \/ \E u \in DisplayImageUrls : parentSetsDisplayImageUrl(u)

Spec == Init /\ [][Next]_vars

(***************************************************************************)
(* The same panel operated with a pointer only.  The save dialog is a      *)
(* fixed full-screen layer (line 267) and the color sub-view an absolute   *)
(* layer over the whole panel (line 325): a click cannot reach what lies   *)
(* under an open layer.  Next has no such restriction, since nothing in    *)
(* the code keeps keyboard focus inside a layer.                           *)
(***************************************************************************)
PanelClickable == ~SaveModalRendered /\ ~ColorModalRendered
ColorModalClickable == ~SaveModalRendered

NextPointer ==
    \/ PanelClickable /\ \E item \in WardrobeItems : handleGarmentClick(item)
    \/ \E k \in 1..MaxInFlight, o \in Outcomes : AcquisitionSettles(k, o)
    \/ ColorModalClickable /\ \E c \in SwatchInputs : setSelectedColor(c)
    \/ ColorModalClickable /\ handleApplyGarment
    \/ ColorModalClickable /\ handleCancelColorSelection
    \/ PanelClickable /\ \E files \in FileLists : handleFileChange(files)
    \/ PanelClickable /\ \E t \in {"garments", "looks"} : setActiveTab(t)
    \/ PanelClickable /\ openSaveModal
    \/ closeSaveModal
    \/ \E value \in NameInputs : setNewLookName(value)
    \/ handleSaveSubmit
    \/ PanelClickable /\ \E k \in 1..Len(InitialLooks) : wearLook(k)
    \/ PanelClickable /\ \E k \in 1..Len(InitialLooks) : deleteLook(k)
    \/ \E b \in BOOLEAN : parentSetsIsLoading(b)
    \/ \E ids \in ActiveIdSets : parentSetsActiveGarmentIds(ids)
    \/ \E u \in DisplayImageUrls : parentSetsDisplayImageUrl(u)

SpecPointer == Init /\ [][NextPointer]_vars

(***************************************************************************)
(* One call urlToFile(url, filename) followed through its callbacks        *)
(* (lines 24-56).  The browser fires load or error on the image once       *)
(* (lines 29, 50) and, if toBlob was called, its callback once (line 40);  *)
(* settlements lists the calls of resolve and reject in order.  Each       *)
(* callback computes what urlToFile computes for the outcome it stands     *)
(* for.                                                                    *)
(***************************************************************************)
ImageJpeg == Str_image \o <<"j", "p", "e", "g">>
ImageWebp == Str_image \o <<"w", "e", "b", "p">>
BlobInputs == {null, Blob(<<>>), Blob(ImagePng), Blob(ImageJpeg), Blob(ImageWebp)}
UrlInputs == {wardrobe[1].url, wardrobe[2].url, <<"https:", 3>>}
FilenameInputs == {wardrobe[1].name, wardrobe[2].name, <<>>, <<"a", ".", "p", "n", "g">>}

Promise(url, filename) ==
    [url |-> url, filename |-> filename, phase |-> "image", settlements |-> <<>>]

InitUrlToFile ==
    /\ error = NullStr
    /\ activeTab = "garments"
    /\ isSaveModalOpen = FALSE
    /\ newLookName = <<>>
    /\ selectedGarmentForColor = null
    /\ selectedColor = "Original"
    /\ pendingFile = null
    /\ isLoading = FALSE
    /\ activeGarmentIds = {}
    /\ displayImageUrl = NullStr
    /\ savedLooks = InitialLooks
    /\ inflight = <<>>
    /\ now = 0
    /\ \E url \in UrlInputs, filename \in FilenameInputs : promise = Promise(url, filename)
    /\ lastSwatch = "Original"
    /\ ev = Event("urlToFile", null)
    /\ emitted = <<>>

Settle(r) ==
    promise' = [promise EXCEPT !.phase = "returned",
                               !.settlements = Append(promise.settlements, r)]

image_onerror ==                                               \* lines 50-52
    /\ promise # null
    /\ promise.phase = "image"
    /\ Settle(urlToFile(promise.url, promise.filename, Outcome(FALSE, FALSE, null)))
    /\ ev' = Event("image.onerror", null)
    /\ UNCHANGED <<panel, props, inflight, now, lastSwatch, emitted>>

image_onload(ctx) ==                                           \* lines 29-47
    /\ promise # null
    /\ promise.phase = "image"
    /\ IF ~ctx
       THEN Settle(urlToFile(promise.url, promise.filename, Outcome(TRUE, FALSE, null)))
       ELSE promise' = [promise EXCEPT !.phase = "toBlob"]
    /\ ev' = Event("image.onload", ctx)
    /\ UNCHANGED <<panel, props, inflight, now, lastSwatch, emitted>>

toBlob_callback(blob) ==                                       \* lines 40-46
    /\ promise # null
    /\ promise.phase = "toBlob"
    /\ Settle(urlToFile(promise.url, promise.filename, Outcome(TRUE, TRUE, blob)))
    /\ ev' = Event("toBlob.callback", blob)
    /\ UNCHANGED <<panel, props, inflight, now, lastSwatch, emitted>>

NextUrlToFile ==
    \/ image_onerror
    \/ \E ctx \in BOOLEAN : image_onload(ctx)
    \/ \E blob \in BlobInputs : toBlob_callback(blob)

SpecUrlToFile == InitUrlToFile /\ [][NextUrlToFile]_vars

(***************************************************************************)
(* The panel operated with a pointer, with the clock and the applier in    *)
(* the picture.  Date.now() (line 131) counts milliseconds: Tick moves it  *)
(* on, and any number of steps fit between two ticks.  The parent keeps in *)
(* activeGarmentIds the ids of the garments already applied: having been   *)
(* handed an item by onGarmentSelect (line 111), it adds the item's id.    *)
(* The user has a second image file to upload.                             *)
(***************************************************************************)
MaxNow == 1

SecondUpload == File(<<"b", ".", "p", "n", "g">>, ImagePng, <<"bytes", <<"local", 3>>>>)

Tick ==
    /\ now < MaxNow
    /\ now' = now + 1
    /\ ev' = Event("Tick", null)
    /\ emitted' = <<>>
    /\ UNCHANGED <<panel, props, inflight, promise, lastSwatch>>

parentWearsApplied ==
    /\ emitted # <<>>
    /\ emitted[1].fn = "onGarmentSelect"
    /\ activeGarmentIds' = activeGarmentIds \cup {emitted[1].args[2].id}
    /\ ev' = Event("props", null)
    /\ emitted' = <<>>
    /\ UNCHANGED <<panel, isLoading, displayImageUrl, savedLooks, inflight, now,
                   promise, lastSwatch>>

NextClock ==
    \/ NextPointer
    \/ PanelClickable /\ handleFileChange(<<SecondUpload>>)
    \/ Tick
    \/ parentWearsApplied

SpecClock == Init /\ [][NextClock]_vars

(***************************************************************************)
(* Properties                                                              *)
(***************************************************************************)
ItemOverId(id) == CHOOSE item \in WardrobeItems : item.id = id

\* C1: a garment click on an item whose id is in activeGarmentIds, or on any
\* item while isLoading is true, changes no panel state, starts no acquisition
\* and invokes no callback.
C1_BlockedGarmentClickIsNoOp ==
    [][\A item \in WardrobeItems :
          (/\ ev'.op = "handleGarmentClick"
           /\ ev'.arg = item.id
           /\ (isLoading \/ item.id \in activeGarmentIds))
          => (/\ UNCHANGED panel
              /\ inflight' = inflight
              /\ emitted' = <<>>)]_vars

C1_Witness ==
    /\ ev.op = "handleGarmentClick"
    /\ ev.arg \in activeGarmentIds
    /\ ~isLoading
    /\ inflight = <<>>

\* C2: Confirm invokes the applier exactly once, and the color it passes is the
\* swatch the user selected last since the color sub-view opened ("Original"
\* when the user selected none), whatever happened in between.
C2_ConfirmAppliesLastSwatch ==
    [][ev'.op = "handleApplyGarment"
       => (/\ Len(emitted') = 1
           /\ emitted'[1].fn = "onGarmentSelect"
           /\ emitted'[1].args[3] = lastSwatch)]_vars

\* C3: after Cancel in the color sub-view no callback has been invoked, the
\* pending file and the candidate item are both cleared and the color sub-view
\* is not visible.
C3_CancelDiscardsPending ==
    ev.op = "handleCancelColorSelection"
    => (/\ emitted = <<>>
        /\ pendingFile = null
        /\ selectedGarmentForColor = null
        /\ ~ColorModalRendered)

C3_Witness ==
    /\ ev.op = "handleCancelColorSelection"
    /\ selectedColor # "Original"
    /\ activeTab = "garments"
    /\ ~isSaveModalOpen

\* t is s without its leading and trailing white space
IsTrimOf(t, s) ==
    \E i \in 0..Len(s), j \in 0..Len(s) :
        /\ i + j <= Len(s)
        /\ t = SubSeq(s, i + 1, Len(s) - j)
        /\ \A k \in 1..i : s[k] \in {" ", "\t", "\n"}
        /\ \A k \in (Len(s) - j + 1)..Len(s) : s[k] \in {" ", "\t", "\n"}
        /\ t # <<>> => (t[1] \notin {" ", "\t", "\n"} /\ t[Len(t)] \notin {" ", "\t", "\n"})

\* C4: submitting the save-look form with an empty or white-space-only name
\* invokes no callback and changes no state; with any other name it invokes
\* saveLook exactly once with the trimmed name, empties the name field, closes
\* the save dialog and makes "looks" the active tab.
C4_SaveSubmit ==
    [][ev'.op = "handleSaveSubmit"
       => IF \A k \in 1..Len(newLookName) : newLookName[k] \in {" ", "\t", "\n"}
          THEN /\ emitted' = <<>>
               /\ UNCHANGED <<panel, props, inflight>>
          ELSE /\ Len(emitted') = 1
               /\ emitted'[1].fn = "onSaveLook"
               /\ Len(emitted'[1].args) = 1
               /\ IsTrimOf(emitted'[1].args[1], newLookName)
               /\ newLookName' = <<>>
               /\ isSaveModalOpen' = FALSE
               /\ activeTab' = "looks"]_vars

C4_Witness ==
    /\ ev.op = "handleSaveSubmit"
    /\ ev.arg = <<" ", "a", " ", "b", " ">>
    /\ emitted = <<Call("onSaveLook", <<<<"a", " ", "b">>>>)>>
    /\ newLookName = <<>>
    /\ ~isSaveModalOpen
    /\ activeTab = "looks"

\* C5: choosing an upload file whose declared type does not start with
\* "image/" sets the validation error, leaves the pending file, the candidate
\* item and the selected color as they were, and invokes no callback.
C5_NonImageUploadRejected ==
    [][(/\ ev'.op = "handleFileChange"
        /\ ev'.arg # <<>>
        /\ ~isLoading
        /\ \E k \in 1..Len(Str_image) :
               Len(ev'.arg[1].type) < k \/ ev'.arg[1].type[k] # Str_image[k])
       => (/\ error' = ErrType
           /\ UNCHANGED <<pendingFile, selectedGarmentForColor, selectedColor>>
           /\ emitted' = <<>>)]_vars

C5_Witness ==
    /\ ev.op = "handleFileChange"
    /\ ev.arg # <<>>
    /\ ev.arg[1].type = TextPlain
    /\ error = ErrType
    /\ pendingFile # null
    /\ pendingFile.type = ImagePng

\* C6: the color sub-view is visible iff a candidate item is set, and a
\* candidate item is set iff a pending file is set.
C6_PendingSelectionWhole ==
    /\ ColorModalRendered <=> selectedGarmentForColor # null
    /\ selectedGarmentForColor # null <=> pendingFile # null

C6_Witness ==
    /\ ev.op = "AcquisitionSettles"
    /\ ev.arg.settled = "resolved"
    /\ ColorModalRendered
    /\ selectedGarmentForColor # null
    /\ pendingFile # null

\* C7: the color sub-view and the save-look dialog are never open at the same
\* time.
C7_OneModalAtATime ==
    ~(selectedGarmentForColor # null /\ isSaveModalOpen)

\* C8: after an acquisition succeeds the panel is in ColorPicking for its item
\* with the color "Original"; after an acquisition fails the error message is
\* set and the panel is in Browsing: no candidate item, no pending file.
C8_AcquisitionOutcome ==
    ev.op = "AcquisitionSettles"
    => IF ev.arg.settled = "resolved"
       THEN /\ selectedGarmentForColor = ItemOverId(ev.arg.id)
            /\ pendingFile # null
            /\ selectedColor = "Original"
       ELSE /\ error = ErrLoad
            /\ selectedGarmentForColor = null
            /\ pendingFile = null

\* C9: a pending acquisition never blocks a new click, and every acquisition
\* that resolves, whatever its place in the click order, overwrites the pending
\* selection with its own file and item and resets the color.
C9_LastResolvedWins ==
    [][/\ \A item \in WardrobeItems :
             (/\ ev'.op = "handleGarmentClick"
              /\ ev'.arg = item.id
              /\ ~isLoading
              /\ item.id \notin activeGarmentIds)
             => inflight' = Append(inflight, item)
       /\ (ev'.op = "AcquisitionSettles" /\ ev'.arg.settled = "resolved")
             => (/\ selectedGarmentForColor' = ItemOverId(ev'.arg.id)
                 /\ pendingFile'.name = selectedGarmentForColor'.name
                 /\ pendingFile'.data = <<"pixels", selectedGarmentForColor'.url>>
                 /\ selectedColor' = "Original")]_vars

\* The color sub-view shows an item although an item clicked later is still
\* being acquired.
C9_Witness ==
    /\ ev.op = "AcquisitionSettles"
    /\ ev.arg.settled = "resolved"
    /\ ev.arg.overtakes
    /\ selectedGarmentForColor # null
    /\ selectedGarmentForColor.id = ev.arg.id
    /\ inflight # <<>>
    /\ inflight[Len(inflight)].id # selectedGarmentForColor.id

\* C10: the save dialog opens only while displayImageUrl is set and isLoading
\* is false, and saveLook is invoked only in such a state.
C10_SaveOnlyWhenEnabled ==
    [][/\ (~isSaveModalOpen /\ isSaveModalOpen')
             => (displayImageUrl # NullStr /\ ~isLoading)
       /\ (Len(emitted') > 0 /\ emitted'[1].fn = "onSaveLook")
             => (displayImageUrl # NullStr /\ ~isLoading)]_vars

\* C11: while isLoading is true neither a garment click nor a file chosen in
\* the upload input starts an acquisition or touches the pending selection
\* (file, item, color); nor does a garment click on an item that is active.
C11_LoadingGuard ==
    [][(\/ (ev'.op \in {"handleGarmentClick", "handleFileChange"} /\ isLoading)
        \/ (ev'.op = "handleGarmentClick" /\ ev'.arg \in activeGarmentIds))
       => (/\ inflight' = inflight
           /\ UNCHANGED <<pendingFile, selectedGarmentForColor, selectedColor>>)]_vars

C11_Witness ==
    /\ ev.op = "handleFileChange"
    /\ ev.arg # <<>>
    /\ ev.arg[1].type = ImagePng
    /\ isLoading
    /\ pendingFile = null
    /\ selectedGarmentForColor = null

\* C12: an upload whose declared type starts with "image/", chosen while the
\* input is enabled, opens the color sub-view in that same step and starts no
\* acquisition: the pending file is the chosen file, the candidate item is a
\* new item (not one of the wardrobe) with id custom-<now> and the file's
\* name, the selected color is "Original", and no callback is invoked.
C12_AcceptedUpload ==
    [][(/\ ev'.op = "handleFileChange"
        /\ ev'.arg # <<>>
        /\ ~isLoading
        /\ Len(ev'.arg[1].type) >= Len(Str_image)
        /\ \A k \in 1..Len(Str_image) : ev'.arg[1].type[k] = Str_image[k])
       => (/\ inflight' = inflight
           /\ pendingFile' = ev'.arg[1]
           /\ selectedGarmentForColor' # null
           /\ selectedGarmentForColor' \notin WardrobeItems
           /\ selectedGarmentForColor'.id = <<"custom-", now>>
           /\ selectedGarmentForColor'.name = ev'.arg[1].name
           /\ selectedColor' = "Original"
           /\ ColorModalRendered'
           /\ emitted' = <<>>)]_vars

C12_Witness ==
    /\ ev.op = "handleFileChange"
    /\ ev.arg # <<>>
    /\ ~isLoading
    /\ pendingFile = ev.arg[1]
    /\ pendingFile.type = ImagePng
    /\ selectedGarmentForColor # null
    /\ selectedGarmentForColor.id = <<"custom-", now>>
    /\ selectedGarmentForColor.name = pendingFile.name
    /\ selectedColor = "Original"
    /\ Len(inflight) = 1

\* C13: "Wear" on a saved look invokes onSelectLook once with that look and
\* nothing else; delete invokes onDeleteLook once with that look's id and
\* nothing else; both leave the seven state cells as they were; and no step of
\* the panel changes the savedLooks list.
C13_LooksTabEmitsOnly ==
    [][/\ ev'.op = "wearLook"
          => (/\ emitted' = <<[fn |-> "onSelectLook", args |-> <<savedLooks[ev'.arg]>>]>>
              /\ UNCHANGED panel)
       /\ ev'.op = "deleteLook"
          => (/\ emitted' = <<[fn |-> "onDeleteLook", args |-> <<savedLooks[ev'.arg].id>>]>>
              /\ UNCHANGED panel)
       /\ ev'.op # "props" => savedLooks' = savedLooks]_vars

C13_Witness ==
    /\ ev.op = "deleteLook"
    /\ ev.arg = 2
    /\ Len(emitted) = 1
    /\ emitted[1].fn = "onDeleteLook"
    /\ emitted[1].args = <<InitialLooks[2].id>>
    /\ savedLooks = InitialLooks
    /\ error # NullStr
    /\ pendingFile # null

\* C14: a urlToFile call calls resolve or reject at most once, and what it
\* calls is fixed by its last callback: the image's error event rejects with
\* the could-not-load error; the load event without a 2d context rejects with
\* the no-canvas-context error, and with a context settles nothing yet; the
\* toBlob callback with a null blob rejects with the toBlob-failed error, and
\* with a blob resolves to a file named filename whose type is the blob's
\* type, or image/png when the blob's type is empty.
C14_UrlToFileSettlesOnce ==
    promise # null =>
        /\ Len(promise.settlements) <= 1
        /\ ev.op = "urlToFile" => promise.settlements = <<>>
        /\ ev.op = "image.onerror" =>
               promise.settlements =
                   <<[settled |-> "rejected",
                      reason |-> "Could not load image from URL for canvas conversion."]>>
        /\ ev.op = "image.onload" =>
               promise.settlements =
                   IF ev.arg THEN <<>>
                   ELSE <<[settled |-> "rejected", reason |-> "Could not get canvas context."]>>
        /\ ev.op = "toBlob.callback" =>
               /\ Len(promise.settlements) = 1
               /\ IF ev.arg = null
                  THEN promise.settlements[1] =
                           [settled |-> "rejected", reason |-> "Canvas toBlob failed."]
                  ELSE /\ promise.settlements[1].settled = "resolved"
                       /\ promise.settlements[1].file.name = promise.filename
                       /\ promise.settlements[1].file.type =
                              (IF ev.arg.type = <<>> THEN ImagePng ELSE ev.arg.type)

C14_Witness ==
    /\ promise # null
    /\ ev.op = "toBlob.callback"
    /\ ev.arg # null
    /\ ev.arg.type = ImageJpeg
    /\ Len(promise.settlements) = 1
    /\ promise.settlements[1].settled = "resolved"
    /\ promise.settlements[1].file.name = wardrobe[1].name
    /\ promise.settlements[1].file.type = ImageJpeg

\* C15: clicking a swatch sets selectedColor to that swatch's name and leaves
\* pendingFile, selectedGarmentForColor, error, activeTab, isSaveModalOpen and
\* newLookName as they were, invoking no callback; and selectedColor is at all
\* times one of the twelve names of COLORS.
C15_SwatchChangesColorOnly ==
    /\ [](selectedColor \in ColorNames)
    /\ [][ev'.op = "setSelectedColor"
          => (/\ selectedColor' = ev'.arg
              /\ UNCHANGED <<pendingFile, selectedGarmentForColor, error, activeTab,
                             isSaveModalOpen, newLookName>>
              /\ emitted' = <<>>)]_vars

C15_Witness ==
    /\ ev.op = "setSelectedColor"
    /\ ev.arg = "Black"
    /\ selectedColor = "Black"
    /\ error # NullStr
    /\ pendingFile # null
    /\ newLookName # <<>>

\* C16: a step invokes onGarmentSelect at most once, only as Apply and only
\* from a state in which both the pending file and the candidate item are
\* set; that step leaves both cleared; and a cleared pending file becomes set
\* again only by an acquisition that resolves or by an accepted upload.  So
\* between two invocations of onGarmentSelect lies one of those two steps.
C16_ApplyOncePerSelection ==
    [][/\ (\E i \in 1..Len(emitted') : emitted'[i].fn = "onGarmentSelect")
          => (/\ Len(emitted') = 1
              /\ ev'.op = "handleApplyGarment"
              /\ pendingFile # null
              /\ selectedGarmentForColor # null
              /\ pendingFile' = null
              /\ selectedGarmentForColor' = null)
       /\ (ev'.op = "handleApplyGarment" /\ (pendingFile = null \/ selectedGarmentForColor = null))
          => emitted' = <<>>
       /\ (pendingFile = null /\ pendingFile' # null)
          => \/ ev'.op = "AcquisitionSettles" /\ ev'.arg.settled = "resolved"
             \/ (/\ ev'.op = "handleFileChange"
                 /\ ev'.arg # <<>>
                 /\ pendingFile' = ev'.arg[1])]_vars

C16_Witness ==
    /\ ev.op = "handleApplyGarment"
    /\ Len(emitted) = 1
    /\ emitted[1].fn = "onGarmentSelect"
    /\ emitted[1].args[2] = wardrobe[2]
    /\ pendingFile = null
    /\ selectedGarmentForColor = null

\* C17: whenever onGarmentSelect is invoked, isLoading is false and the id of
\* the item passed is not in activeGarmentIds (the props are those of the
\* render whose Apply button was pressed: the step leaves them as they were).
C17_ApplyRespectsGuards ==
    \A i \in 1..Len(emitted) :
        emitted[i].fn = "onGarmentSelect"
        => (/\ ~isLoading
            /\ emitted[i].args[2].id \notin activeGarmentIds)

\* C18: the file and the item of every onGarmentSelect call belong together:
\* either the file holds the pixels drawn from the item's url and bears the
\* item's name (the result of that item's acquisition), or the item is a
\* custom one whose url is the object URL of that file and whose name is the
\* file's name (the upload it was synthesized from).
FileOfAcquisition(file, item) ==
    /\ file.data = <<"pixels", item.url>>
    /\ file.name = item.name

FileOfUpload(file, item) ==
    /\ item.id[1] = "custom-"
    /\ file.data[1] = "bytes"
    /\ item.url = <<"blob:", file.data[2][2]>>
    /\ item.name = file.name

C18_FileBelongsToItem ==
    \A i \in 1..Len(emitted) :
        emitted[i].fn = "onGarmentSelect"
        => \/ FileOfAcquisition(emitted[i].args[1], emitted[i].args[2])
           \/ FileOfUpload(emitted[i].args[1], emitted[i].args[2])

C18_Witness ==
    /\ ev.op = "handleApplyGarment"
    /\ Len(emitted) = 1
    /\ emitted[1].fn = "onGarmentSelect"
    /\ FileOfUpload(emitted[1].args[1], emitted[1].args[2])
    /\ Len(inflight) = 2
    /\ inflight[1] # inflight[2]

\* C19: the item synthesized by an accepted upload has an id that no garment
\* already applied has: its id is not in activeGarmentIds.
C19_SynthesizedIdIsFresh ==
    (/\ ev.op = "handleFileChange"
     /\ ev.arg # <<>>
     /\ pendingFile = ev.arg[1]
     /\ selectedGarmentForColor # null
     /\ selectedGarmentForColor.id[1] = "custom-")
    => selectedGarmentForColor.id \notin activeGarmentIds

\* C20: a set error becomes unset only by a garment click that passes the
\* guard (isLoading false, item not active); swatch selection, Cancel, Apply,
\* tab switches, the save-look steps, the looks-tab buttons and an accepted
\* upload leave error exactly as it was.
C20_ErrorClearedOnlyByClick ==
    [][/\ (error # NullStr /\ error' = NullStr)
          => (/\ ev'.op = "handleGarmentClick"
              /\ ~isLoading
              /\ ev'.arg \notin activeGarmentIds)
       /\ ev'.op \in {"setSelectedColor", "handleCancelColorSelection", "handleApplyGarment",
                      "setActiveTab", "openSaveModal", "closeSaveModal", "setNewLookName",
                      "handleSaveSubmit", "wearLook", "deleteLook"}
          => error' = error
       /\ (/\ ev'.op = "handleFileChange"
           /\ ev'.arg # <<>>
           /\ ev'.arg[1].type = ImagePng)
          => error' = error]_vars

C20_Witness ==
    /\ ev.op = "handleFileChange"
    /\ ev.arg # <<>>
    /\ pendingFile = ev.arg[1]
    /\ ColorModalRendered
    /\ error = ErrLoad
    /\ ~isLoading

====
